---- MODULE Spec2Model ----
(***************************************************************************)
(* Review pipeline: data_fetcher.run_scraper (cache + browser scrape),     *)
(* analyzer.analyze_reviews (per-row sentiment scoring) and the dashboard  *)
(* script app.py.  Strings that the code inspects character by character   *)
(* (review text, model replies, extracted fields) are tuples of one-       *)
(* character strings, so that substring tests, split, strip and title are  *)
(* computed as Python computes them.                                       *)
(***************************************************************************)
EXTENDS Integers, Sequences, FiniteSets, TLC

-----------------------------------------------------------------------------
(* String literals of the source, and sample texts and reply lines.        *)

\* "Sentiment"
KeySentiment ==
    <<"S", "e", "n", "t", "i", "m", "e", "n", "t">>
\* "Summary"
KeySummary ==
    <<"S", "u", "m", "m", "a", "r", "y">>
\* "Recommendation"
KeyRecommendation ==
    <<"R", "e", "c", "o", "m", "m", "e", "n", "d", "a", "t", "i", "o", "n">>
\* "N/A"
NotAvailable ==
    <<"N", "/", "A">>
\* "Positive"
Positive ==
    <<"P", "o", "s", "i", "t", "i", "v", "e">>
\* "Negative"
Negative ==
    <<"N", "e", "g", "a", "t", "i", "v", "e">>
\* "Neutral"
Neutral ==
    <<"N", "e", "u", "t", "r", "a", "l">>
\* "No text provided"
NoTextProvided ==
    <<"N", "o", " ", "t", "e", "x", "t", " ", "p", "r", "o", "v", "i", "d",
      "e", "d">>
\* "No Text"
NoTextMarker ==
    <<"N", "o", " ", "T", "e", "x", "t">>
\* "Review the feedback for improvements."
FallbackRecommendation ==
    <<"R", "e", "v", "i", "e", "w", " ", "t", "h", "e", " ", "f", "e", "e",
      "d", "b", "a", "c", "k", " ", "f", "o", "r", " ", "i", "m", "p", "r",
      "o", "v", "e", "m", "e", "n", "t", "s", ".">>
\* "[No Text - Rating Only]"
NoTextPlaceholder ==
    <<"[", "N", "o", " ", "T", "e", "x", "t", " ", "-", " ", "R", "a", "t",
      "i", "n", "g", " ", "O", "n", "l", "y", "]">>
\* "nan"
NanText ==
    <<"n", "a", "n">>
\* "Overall rating is "
OverallPrefix ==
    <<"O", "v", "e", "r", "a", "l", "l", " ", "r", "a", "t", "i", "n", "g",
      " ", "i", "s", " ">>
\* ". Verdict: "
VerdictInfix ==
    <<".", " ", "V", "e", "r", "d", "i", "c", "t", ":", " ">>
\* "Excellent / Highly Recommended"
VerdictExcellent ==
    <<"E", "x", "c", "e", "l", "l", "e", "n", "t", " ", "/", " ", "H", "i",
      "g", "h", "l", "y", " ", "R", "e", "c", "o", "m", "m", "e", "n", "d",
      "e", "d">>
\* "Good / Positive"
VerdictGood ==
    <<"G", "o", "o", "d", " ", "/", " ", "P", "o", "s", "i", "t", "i", "v",
      "e">>
\* "Average / Okay"
VerdictAverage ==
    <<"A", "v", "e", "r", "a", "g", "e", " ", "/", " ", "O", "k", "a", "y">>
\* "Poor / Below Average"
VerdictPoor ==
    <<"P", "o", "o", "r", " ", "/", " ", "B", "e", "l", "o", "w", " ", "A",
      "v", "e", "r", "a", "g", "e">>
\* "Bad / Not Recommended"
VerdictBad ==
    <<"B", "a", "d", " ", "/", " ", "N", "o", "t", " ", "R", "e", "c", "o",
      "m", "m", "e", "n", "d", "e", "d">>
\* "Excellent"
WordExcellent ==
    <<"E", "x", "c", "e", "l", "l", "e", "n", "t">>
\* "Good"
WordGood ==
    <<"G", "o", "o", "d">>
\* "Average"
WordAverage ==
    <<"A", "v", "e", "r", "a", "g", "e">>
\* "Poor"
WordPoor ==
    <<"P", "o", "o", "r">>
\* "Bad"
WordBad ==
    <<"B", "a", "d">>
\* "Google Summary"
GoogleSummary ==
    <<"G", "o", "o", "g", "l", "e", " ", "S", "u", "m", "m", "a", "r", "y">>
\* "data/"
DataPrefix ==
    <<"d", "a", "t", "a", "/">>
\* "_reviews.csv"
ReviewsSuffix ==
    <<"_", "r", "e", "v", "i", "e", "w", "s", ".", "c", "s", "v">>
\* "TCS X"
QueryTcs ==
    <<"T", "C", "S", " ", "X">>
\* "Kfc-9"
QueryKfc ==
    <<"K", "f", "c", "-", "9">>
\* "Good"
TextGood ==
    <<"G", "o", "o", "d">>
\* "Great"
TextGreat ==
    <<"G", "r", "e", "a", "t">>
\* "Great service!"
TextGreatService ==
    <<"G", "r", "e", "a", "t", " ", "s", "e", "r", "v", "i", "c", "e", "!">>
\* "Rude staff, slow"
TextRude ==
    <<"R", "u", "d", "e", " ", "s", "t", "a", "f", "f", ",", " ", "s", "l",
      "o", "w">>
\* "Customer loved it"
CustomerLovedIt ==
    <<"C", "u", "s", "t", "o", "m", "e", "r", " ", "l", "o", "v", "e", "d",
      " ", "i", "t">>
\* "Keep it up"
KeepItUp ==
    <<"K", "e", "e", "p", " ", "i", "t", " ", "u", "p">>
\* "Sentiment: positive"
LineSentimentPositive ==
    <<"S", "e", "n", "t", "i", "m", "e", "n", "t", ":", " ", "p", "o", "s",
      "i", "t", "i", "v", "e">>
\* "Summary: Customer loved it"
LineSummary ==
    <<"S", "u", "m", "m", "a", "r", "y", ":", " ", "C", "u", "s", "t", "o",
      "m", "e", "r", " ", "l", "o", "v", "e", "d", " ", "i", "t">>
\* "Recommendation: Keep it up"
LineRecommendation ==
    <<"R", "e", "c", "o", "m", "m", "e", "n", "d", "a", "t", "i", "o", "n",
      ":", " ", "K", "e", "e", "p", " ", "i", "t", " ", "u", "p">>
\* "sentiment: negative"
LineLowerLabel ==
    <<"s", "e", "n", "t", "i", "m", "e", "n", "t", ":", " ", "n", "e", "g",
      "a", "t", "i", "v", "e">>
\* "SENTIMENT: Negative"
LineUpperLabel ==
    <<"S", "E", "N", "T", "I", "M", "E", "N", "T", ":", " ", "N", "e", "g",
      "a", "t", "i", "v", "e">>
\* "Overall Sentiment: NEGATIVE"
LineMidLabel ==
    <<"O", "v", "e", "r", "a", "l", "l", " ", "S", "e", "n", "t", "i", "m",
      "e", "n", "t", ":", " ", "N", "E", "G", "A", "T", "I", "V", "E">>
\* "Sentiment positive"
LineNoColon ==
    <<"S", "e", "n", "t", "i", "m", "e", "n", "t", " ", "p", "o", "s", "i",
      "t", "i", "v", "e">>
\* "Sentiment: mixed"
LineOtherValue ==
    <<"S", "e", "n", "t", "i", "m", "e", "n", "t", ":", " ", "m", "i", "x",
      "e", "d">>
\* "Note: Sentiment: Positive"
LinePrefixedColon ==
    <<"N", "o", "t", "e", ":", " ", "S", "e", "n", "t", "i", "m", "e", "n",
      "t", ":", " ", "P", "o", "s", "i", "t", "i", "v", "e">>
\* "  Sentiment:   Neutral "
LinePadded ==
    <<" ", " ", "S", "e", "n", "t", "i", "m", "e", "n", "t", ":", " ", " ",
      " ", "N", "e", "u", "t", "r", "a", "l", " ">>
\* "summary: fine"
LineLowerSummary ==
    <<"s", "u", "m", "m", "a", "r", "y", ":", " ", "f", "i", "n", "e">>
\* "Summary: Recommendation unclear"
LineSummaryMentions ==
    <<"S", "u", "m", "m", "a", "r", "y", ":", " ", "R", "e", "c", "o", "m",
      "m", "e", "n", "d", "a", "t", "i", "o", "n", " ", "u", "n", "c", "l",
      "e", "a", "r">>

-----------------------------------------------------------------------------
(* Python string operations used by the source.                            *)

LowerLetters ==
    <<"a", "b", "c", "d", "e", "f", "g", "h", "i", "j", "k", "l", "m",
      "n", "o", "p", "q", "r", "s", "t", "u", "v", "w", "x", "y", "z">>

UpperLetters ==
    <<"A", "B", "C", "D", "E", "F", "G", "H", "I", "J", "K", "L", "M",
      "N", "O", "P", "Q", "R", "S", "T", "U", "V", "W", "X", "Y", "Z">>

IsLower(c) == \E i \in 1..26 : LowerLetters[i] = c

IsUpper(c) == \E i \in 1..26 : UpperLetters[i] = c

ToUpper(c) ==
    IF IsLower(c) THEN UpperLetters[CHOOSE i \in 1..26 : LowerLetters[i] = c]
    ELSE c

ToLower(c) ==
    IF IsUpper(c) THEN LowerLetters[CHOOSE i \in 1..26 : UpperLetters[i] = c]
    ELSE c

\* str.isspace for the characters that occur
IsSpace(c) == c \in {" ", "\n", "\t", "\r"}

\* Python's `sub in s`
Contains(sub, s) ==
    \E i \in 1..(Len(s) - Len(sub) + 1) : SubSeq(s, i, i + Len(sub) - 1) = sub

RECURSIVE LStrip(_)
LStrip(s) ==
    IF s # <<>> /\ IsSpace(Head(s)) THEN LStrip(Tail(s)) ELSE s

RECURSIVE RStrip(_)
RStrip(s) ==
    IF s # <<>> /\ IsSpace(s[Len(s)]) THEN RStrip(SubSeq(s, 1, Len(s) - 1))
    ELSE s

\* str.strip()
Strip(s) == RStrip(LStrip(s))

\* position of the first occurrence of character c in s, 0 when absent
FirstIndex(c, s) ==
    IF \E i \in 1..Len(s) : s[i] = c
    THEN CHOOSE i \in 1..Len(s) : s[i] = c /\ \A j \in 1..(i - 1) : s[j] # c
    ELSE 0

\* str.split("\n"): always at least one piece
RECURSIVE SplitLines(_)
SplitLines(s) ==
    LET k == FirstIndex("\n", s)
    IN  IF k = 0 THEN <<s>>
        ELSE <<SubSeq(s, 1, k - 1)>> \o SplitLines(SubSeq(s, k + 1, Len(s)))

\* line.split(":", 1)
SplitColon(line) ==
    LET k == FirstIndex(":", line)
    IN  IF k = 0 THEN <<line>>
        ELSE <<SubSeq(line, 1, k - 1), SubSeq(line, k + 1, Len(line))>>

\* str.title(): a cased letter is upper-cased after an uncased character
\* (or at the start) and lower-cased after a cased one
RECURSIVE TitleFrom(_, _)
TitleFrom(s, prevCased) ==
    IF s = <<>> THEN <<>>
    ELSE LET c == Head(s)
             cased == IsLower(c) \/ IsUpper(c)
             d == IF ~cased THEN c
                  ELSE IF prevCased THEN ToLower(c) ELSE ToUpper(c)
         IN  <<d>> \o TitleFrom(Tail(s), cased)

Title(s) == TitleFrom(s, FALSE)

\* "\n".join(lines)
RECURSIVE JoinLines(_)
JoinLines(ls) ==
    IF ls = <<>> THEN <<>>
    ELSE IF Len(ls) = 1 THEN ls[1]
    ELSE ls[1] \o <<"\n">> \o JoinLines(Tail(ls))

-----------------------------------------------------------------------------
(* Bounds of the model and constants of the program.                       *)

\* analyzer.py: MAX_REVIEWS
MAX_REVIEWS == 10

\* longest input table of analyze_reviews
MaxRows == 12

\* number of row patterns the input tables are built from
NumVariants == 3

\* largest rating, in tenths of a star (5.0)
MaxRating == 50

\* most lines in a model reply
MaxLines == 3

\* data_fetcher.py: MAX_REVIEWS_TO_FETCH
MAX_REVIEWS_TO_FETCH == 100

\* scrape_reviews_force: max_iterations_without_data
max_iterations_without_data == 10

\* most review cards the scroll loop sees below the target count
MaxCards == 2

\* most review cards present at the extraction
MaxExtracted == 1

\* the largest value of iterations told apart from the larger ones; above
\* max_iterations_without_data + 5, the largest number the loop compares with
MaxIterations == 18

\* most run_scraper calls in a behaviour
MaxRuns == 2

-----------------------------------------------------------------------------
(* Tables, files and data frames.                                          *)

\* an empty CSV cell read back by pandas (NaN)
MissingText == <<"NaN">>

\* a review text of 101 characters
LongText == [i \in 1..101 |-> "x"]

\* str(row.get("text", ""))
StrOf(cell) == IF cell = MissingText THEN NanText ELSE cell

NoFile == [kind |-> "absent", rows |-> <<>>]

\* the file to_csv writes for a DataFrame without columns: a single "\n"
BlankFile == [kind |-> "blank", rows |-> <<>>]

TableFile(rows) == [kind |-> "table", rows |-> rows]

\* pd.DataFrame(list_of_dicts).to_csv(path, index=False)
\* (a NaN cell is written as an empty cell)
ToCsv(records) ==
    IF records = <<>> THEN BlankFile
    ELSE TableFile([i \in 1..Len(records) |->
                       IF records[i].text = MissingText
                       THEN [records[i] EXCEPT !.text = <<>>]
                       ELSE records[i]])

\* pd.read_csv raises (no file, or EmptyDataError on a file without columns)
ReadRaises(file) == file.kind # "table"

\* pd.read_csv: an empty text cell comes back as NaN
ReadCsv(file) ==
    [i \in 1..Len(file.rows) |->
        IF file.rows[i].text = <<>>
        THEN [file.rows[i] EXCEPT !.text = MissingText]
        ELSE file.rows[i]]

\* df.head(n)
HeadRows(df, n) == IF Len(df) > n THEN SubSeq(df, 1, n) ELSE df

ReviewRow(a, r, t, d) == [author |-> a, rating |-> r, text |-> t, date |-> d]

-----------------------------------------------------------------------------
(* analyzer.py                                                             *)

ValidToken == <<"h", "f", "_", "k">>

TokenPool == {ValidToken, <<>>, <<"s", "k", "_", "k">>}

TokenPrefix == <<"h", "f", "_">>

\* not HF_API_TOKEN or HF_API_TOKEN.startswith("hf_") is False
TokenInvalid(tok) ==
    tok = <<>> \/ ~(Len(tok) >= 3 /\ SubSeq(tok, 1, 3) = TokenPrefix)

\* the length test alone
ShouldSkipLengthOnly(text) == Len(text) < 5

\* if len(text) < 5 or "No Text" in text
ShouldSkip(text) == Len(text) < 5 \/ Contains(NoTextMarker, text)

SkipRow(author, rating, text) ==
    [author |-> author, rating |-> rating, text |-> text,
     sentiment |-> Neutral, summary |-> NoTextProvided,
     recommendation |-> NotAvailable]

\* extract with the label matched in any letter case
RECURSIVE extractAnyCase(_, _)
extractAnyCase(lines, key) ==
    IF lines = <<>> THEN NotAvailable
    ELSE LET line == Head(lines)
             parts == SplitColon(line)
             low(s) == [i \in 1..Len(s) |-> ToLower(s[i])]
         IN  IF Contains(low(key), low(line)) /\ Len(parts) > 1
             THEN Strip(parts[2])
             ELSE extractAnyCase(Tail(lines), key)

\* the helper extract(key): the first line holding key and a colon
RECURSIVE extract(_, _)
extract(lines, key) ==
    IF lines = <<>> THEN NotAvailable
    ELSE LET line == Head(lines)
             parts == SplitColon(line)
         IN  IF Contains(key, line) /\ Len(parts) > 1
             THEN Strip(parts[2])
             ELSE extract(Tail(lines), key)

\* the sentiment without the coercion to Neutral
SentimentNotCoerced(value) == Title(value)

\* sentiment = extract("Sentiment").title(), then coerced to Neutral
NormalizeSentiment(value) ==
    IF Title(value) \in {Positive, Negative, Neutral} THEN Title(value)
    ELSE Neutral

\* content = str(response).strip(); lines = content.split("\n")
ReplyLines(content) == SplitLines(Strip(content))

ReplyRow(author, rating, text, content) ==
    [author |-> author, rating |-> rating, text |-> text,
     sentiment |-> NormalizeSentiment(extract(ReplyLines(content), KeySentiment)),
     summary |-> extract(ReplyLines(content), KeySummary),
     recommendation |-> extract(ReplyLines(content), KeyRecommendation)]

\* the thresholds with strict comparisons
FallbackSentimentStrict(rating) ==
    IF rating > 40 THEN Positive
    ELSE IF rating < 20 THEN Negative
    ELSE Neutral

\* the except branch: rating >= 4, rating <= 2 (ratings are in tenths)
FallbackSentiment(rating) ==
    IF rating >= 40 THEN Positive
    ELSE IF rating <= 20 THEN Negative
    ELSE Neutral

ErrorRow(author, rating, text) ==
    [author |-> author, rating |-> rating, text |-> text,
     sentiment |-> FallbackSentiment(rating),
     summary |-> IF Len(text) > 100 THEN SubSeq(text, 1, 100) ELSE text,
     recommendation |-> FallbackRecommendation]

-----------------------------------------------------------------------------
(* data_fetcher.py                                                         *)

DigitChars == <<"0", "1", "2", "3", "4", "5", "6", "7", "8", "9">>

IsAlnum(c) == IsLower(c) \/ IsUpper(c) \/ \E i \in 1..10 : DigitChars[i] = c

\* re.sub(r'[^a-zA-Z0-9]', '_', query).lower()
CleanName(query) ==
    [i \in 1..Len(query) |->
        IF IsAlnum(query[i]) THEN ToLower(query[i]) ELSE "_"]

get_clean_filename(query) == DataPrefix \o CleanName(query) \o ReviewsSuffix

\* str() of a rating held in tenths: "4.7"
FormatRating(r) ==
    (IF r >= 100 THEN <<DigitChars[((r \div 100) % 10) + 1]>> ELSE <<>>)
    \o <<DigitChars[((r \div 10) % 10) + 1], ".", DigitChars[(r % 10) + 1]>>

\* the verdict with every threshold one step too high
VerdictShifted(rating_val) ==
    IF rating_val > 45 THEN VerdictExcellent
    ELSE IF rating_val > 40 THEN VerdictGood
    ELSE IF rating_val > 30 THEN VerdictAverage
    ELSE IF rating_val > 20 THEN VerdictPoor
    ELSE VerdictBad

\* Generate Interpretation: 4.5, 4.0, 3.0, 2.0 (ratings are in tenths)
Verdict(rating_val) ==
    IF rating_val >= 45 THEN VerdictExcellent
    ELSE IF rating_val >= 40 THEN VerdictGood
    ELSE IF rating_val >= 30 THEN VerdictAverage
    ELSE IF rating_val >= 20 THEN VerdictPoor
    ELSE VerdictBad

\* fallback_data
FallbackData(rating_val) ==
    <<ReviewRow(GoogleSummary, rating_val,
                OverallPrefix \o FormatRating(rating_val) \o VerdictInfix
                    \o Verdict(rating_val),
                "Today")>>

\* what the extraction of one card can do
CardKinds == {"full", "no_text", "no_rating", "stale"}

CardTexts == <<TextGreatService, TextRude, TextGreat>>

CardRatings == <<50, 10, 30>>

\* the row of card i of the page of query q
CardRow(q, i, kind) ==
    ReviewRow(q \o <<"#", DigitChars[(i % 10) + 1]>>,
              IF kind = "no_rating" THEN 0 ELSE CardRatings[((i - 1) % 3) + 1],
              IF kind = "no_text" THEN NoTextPlaceholder
              ELSE CardTexts[((i - 1) % 3) + 1],
              "Recent")

\* 3. EXTRACTION: final_data; a card whose lookup raises is left out
RECURSIVE FinalData(_, _, _)
FinalData(q, kinds, i) ==
    IF i > Len(kinds) THEN <<>>
    ELSE (IF kinds[i] = "stale" THEN <<>> ELSE <<CardRow(q, i, kinds[i])>>)
         \o FinalData(q, kinds, i + 1)

-----------------------------------------------------------------------------
(* State.                                                                  *)

VARIABLES
    HF_API_TOKEN,    \* analyzer.py: the configured token
    rawFile,         \* data/reviews_raw.csv
    analyzedFile,    \* data/reviews_analyzed.csv
    anPc,            \* position of analyze_reviews
    df,              \* analyze_reviews: the loaded table
    index,           \* analyze_reviews: rows of df already processed
    analyzed_rows,   \* analyze_reviews: the rows built so far
    invoked,         \* positions of df for which chain.invoke was called
    errored,         \* positions of df for which chain.invoke raised
    content,         \* a model reply handed to the parser
    parsed,          \* the row built from content
    cacheFiles,      \* the per-query files data/<name>_reviews.csv
    scrPc,           \* position of run_scraper
    user_query,      \* run_scraper: its argument
    driver,          \* the browser session of this call: none, open, closed
    route,           \* run_scraper: direct listing page or results list
    iterations,      \* scrape_reviews_force: iterations
    reviewsLen,      \* scrape_reviews_force: len(reviews_data)
    exitPath,        \* the path on which this call of run_scraper ended
    fetched,         \* the rows this call of run_scraper obtained
    rating_val,      \* scrape_reviews_force: rating_val, in tenths
    cacheAtCall,     \* the state of the cache file when this call began
    runs,            \* calls of run_scraper so far
    appPc,           \* position of the dashboard script
    last_query,      \* st.session_state.last_query
    data_loaded,     \* st.session_state.data_loaded
    status,          \* the state of the st.status box of the last run
    view             \* what the page shows after the last script run

anVars == <<HF_API_TOKEN, anPc, df, index, analyzed_rows, invoked, errored>>

parseVars == <<content, parsed>>

scrVars ==
    <<scrPc, user_query, driver, route, iterations, reviewsLen, rating_val,
      exitPath, fetched, cacheAtCall, runs>>

appVars == <<appPc, last_query, data_loaded, status, view>>

vars == <<cacheFiles, rawFile, analyzedFile, anVars, parseVars, scrVars, appVars>>

-----------------------------------------------------------------------------
(* Inputs.                                                                 *)

TextPool ==
    <<TextGreatService, <<>>, TextGood, NoTextPlaceholder, TextGreat,
      LongText, TextRude>>

\* row i of the table pattern v
PatternRow(i, v) ==
    ReviewRow(ToString(i), (i * 7 + v * 13) % (MaxRating + 1),
              TextPool[((i * v + v) % Len(TextPool)) + 1], "Recent")

\* input tables: every one-row table, and patterned tables of each length
Tables ==
    {<<ReviewRow("1", r, TextPool[t], "Recent")>> :
        r \in 0..MaxRating, t \in 1..Len(TextPool)}
    \cup {[i \in 1..n |-> PatternRow(i, v)] : n \in 0..MaxRows, v \in 1..NumVariants}

GoodReply == JoinLines(<<LineSentimentPositive, LineSummary, LineRecommendation>>)

\* replies of the model in the scoring loop
ReplyPool ==
    {GoodReply,
     JoinLines(<<LineOtherValue, LineLowerSummary>>),
     JoinLines(<<LineRecommendation, LineMidLabel>>)}

LinePool ==
    {LineSentimentPositive, LineSummary, LineRecommendation, LineLowerLabel,
     LineUpperLabel, LineMidLabel, LineNoColon, LineOtherValue,
     LinePrefixedColon, LinePadded, LineLowerSummary, LineSummaryMentions,
     <<>>}

\* replies handed to the parser: up to MaxLines lines of LinePool
Replies ==
    {JoinLines(ls) : ls \in UNION {[1..n -> LinePool] : n \in 0..MaxLines}}

\* the business queries entered
Queries == {QueryTcs, QueryKfc}

FileNames == {get_clean_filename(q) : q \in Queries}

\* numbers of review cards find_elements can return
CardCounts == 0..MaxCards \cup {MAX_REVIEWS_TO_FETCH}

\* aggregate ratings the page can show, in tenths; 0: none could be read
AggRatings == {0, 19, 20, 29, 30, 39, 40, 44, 45, 47}

NoRow == [author |-> "", rating |-> 0, text |-> <<>>, sentiment |-> <<>>,
          summary |-> <<>>, recommendation |-> <<>>]

-----------------------------------------------------------------------------
(* analyze_reviews, step by step.                                          *)

AnLocalsInit ==
    /\ df = <<>>
    /\ index = 0
    /\ analyzed_rows = <<>>
    /\ invoked = {}
    /\ errored = {}

\* 1. TOKEN CHECK
AnTokenCheck ==
    /\ anPc = "start"
    /\ anPc' = IF TokenInvalid(HF_API_TOKEN) THEN "abort_token" ELSE "load"
    /\ UNCHANGED <<HF_API_TOKEN, df, index, analyzed_rows, invoked, errored,
                   rawFile, analyzedFile, parseVars,
                   cacheFiles, scrVars, appVars>>

\* 2. LOAD CSV: missing file returns, an unreadable one raises out of the call
AnLoad ==
    /\ anPc = "load"
    /\ IF rawFile.kind = "absent"
       THEN anPc' = "abort_noinput" /\ df' = df
       ELSE IF ReadRaises(rawFile)
       THEN anPc' = "raised" /\ df' = df
       ELSE anPc' = "connect" /\ df' = HeadRows(ReadCsv(rawFile), MAX_REVIEWS)
    /\ UNCHANGED <<HF_API_TOKEN, index, analyzed_rows, invoked, errored,
                   rawFile, analyzedFile, parseVars,
                   cacheFiles, scrVars, appVars>>

\* 3. CONNECT: the endpoint constructor may raise
AnConnect ==
    /\ anPc = "connect"
    /\ \E ok \in BOOLEAN : anPc' = IF ok THEN "loop" ELSE "abort_connect"
    /\ UNCHANGED <<HF_API_TOKEN, df, index, analyzed_rows, invoked, errored,
                   rawFile, analyzedFile, parseVars,
                   cacheFiles, scrVars, appVars>>

CurText == StrOf(df[index + 1].text)

\* 5. LOOP: a row with blank text is filled in without a request
AnSkip ==
    /\ anPc = "loop"
    /\ index < Len(df)
    /\ ShouldSkip(CurText)
    /\ analyzed_rows' = Append(analyzed_rows,
            SkipRow(df[index + 1].author, df[index + 1].rating, CurText))
    /\ index' = index + 1
    /\ UNCHANGED <<HF_API_TOKEN, anPc, df, invoked, errored,
                   rawFile, analyzedFile, parseVars,
                   cacheFiles, scrVars, appVars>>

\* chain.invoke returns a reply
AnReply ==
    /\ anPc = "loop"
    /\ index < Len(df)
    /\ ~ShouldSkip(CurText)
    /\ \E c \in ReplyPool :
          analyzed_rows' = Append(analyzed_rows,
              ReplyRow(df[index + 1].author, df[index + 1].rating, CurText, c))
    /\ invoked' = invoked \cup {index + 1}
    /\ index' = index + 1
    /\ UNCHANGED <<HF_API_TOKEN, anPc, df, errored,
                   rawFile, analyzedFile, parseVars,
                   cacheFiles, scrVars, appVars>>

\* an invocation error that loses its row
AnErrorDropsRow ==
    /\ anPc = "loop"
    /\ index < Len(df)
    /\ ~ShouldSkip(CurText)
    /\ invoked' = invoked \cup {index + 1}
    /\ errored' = errored \cup {index + 1}
    /\ index' = index + 1
    /\ UNCHANGED <<HF_API_TOKEN, anPc, df, analyzed_rows, rawFile, analyzedFile,
                   parseVars,
                   cacheFiles, scrVars, appVars>>

\* chain.invoke raises
AnError ==
    /\ anPc = "loop"
    /\ index < Len(df)
    /\ ~ShouldSkip(CurText)
    /\ analyzed_rows' = Append(analyzed_rows,
            ErrorRow(df[index + 1].author, df[index + 1].rating, CurText))
    /\ invoked' = invoked \cup {index + 1}
    /\ errored' = errored \cup {index + 1}
    /\ index' = index + 1
    /\ UNCHANGED <<HF_API_TOKEN, anPc, df, rawFile, analyzedFile, parseVars,
                   cacheFiles, scrVars, appVars>>

\* 6. SAVE
AnSave ==
    /\ anPc = "loop"
    /\ index = Len(df)
    /\ analyzedFile' = ToCsv(analyzed_rows)
    /\ anPc' = "finished"
    /\ UNCHANGED <<HF_API_TOKEN, df, index, analyzed_rows, invoked, errored,
                   rawFile, parseVars,
                   cacheFiles, scrVars, appVars>>

AnalyzerNext ==
    \/ AnTokenCheck
    \/ AnLoad
    \/ AnConnect
    \/ AnSkip
    \/ AnReply
    \/ AnError
    \/ AnSave

-----------------------------------------------------------------------------
(* run_scraper and scrape_reviews_force, step by step.                     *)

ScrLocalsIdle ==
    /\ user_query = <<>>
    /\ driver = "none"
    /\ route = ""
    /\ iterations = 0
    /\ reviewsLen = 0
    /\ exitPath = ""
    /\ fetched = <<>>
    /\ rating_val = 0
    /\ cacheAtCall = "absent"

\* the call run_scraper(q)
CallRunScraper(q) ==
    /\ runs < MaxRuns
    /\ runs' = runs + 1
    /\ scrPc' = "cache_check"
    /\ user_query' = q
    /\ driver' = "none"
    /\ route' = ""
    /\ iterations' = 0
    /\ reviewsLen' = 0
    /\ exitPath' = ""
    /\ fetched' = <<>>
    /\ rating_val' = 0
    /\ cacheAtCall' = cacheFiles[get_clean_filename(q)].kind

\* a cache check that goes on to scrape after a hit
ScrCacheCheckNoReturn ==
    /\ scrPc = "cache_check"
    /\ LET file == cacheFiles[get_clean_filename(user_query)]
       IN  IF file.kind # "absent" /\ ~ReadRaises(file)
           THEN /\ rawFile' = ToCsv(ReadCsv(file))
                /\ fetched' = file.rows
                /\ exitPath' = "cache_hit"
                /\ scrPc' = "open"
           ELSE /\ scrPc' = "open"
                /\ UNCHANGED <<rawFile, fetched, exitPath>>
    /\ UNCHANGED <<cacheFiles, analyzedFile, user_query, driver, route,
                   iterations, reviewsLen, rating_val, cacheAtCall, runs, anVars, parseVars,
                   appVars>>

\* 1. CACHE CHECK: a readable cache file is copied to the current file and
\* the call returns; a missing or unreadable one leads to the browser
ScrCacheCheck ==
    /\ scrPc = "cache_check"
    /\ LET file == cacheFiles[get_clean_filename(user_query)]
       IN  IF file.kind # "absent" /\ ~ReadRaises(file)
           THEN /\ rawFile' = ToCsv(ReadCsv(file))
                /\ fetched' = file.rows
                /\ exitPath' = "cache_hit"
                /\ scrPc' = "returned"
           ELSE /\ scrPc' = "open"
                /\ UNCHANGED <<rawFile, fetched, exitPath>>
    /\ UNCHANGED <<cacheFiles, analyzedFile, user_query, driver, route,
                   iterations, reviewsLen, rating_val, cacheAtCall, runs, anVars, parseVars,
                   appVars>>

\* 2. START BROWSER: get_driver() returns a session, or raises out of the call
ScrGetDriver ==
    /\ scrPc = "open"
    /\ \E ok \in BOOLEAN :
          IF ok THEN driver' = "open" /\ scrPc' = "navigate"
          ELSE driver' = driver /\ scrPc' = "raised"
    /\ UNCHANGED <<cacheFiles, rawFile, analyzedFile, user_query, route,
                   iterations, reviewsLen, exitPath, fetched, rating_val, cacheAtCall, runs,
                   anVars, parseVars, appVars>>

\* driver.get(url) and the test of driver.current_url
ScrNavigate ==
    /\ scrPc = "navigate"
    /\ \E landed \in {"direct", "list", "raise"} :
          IF landed = "raise"
          THEN scrPc' = "quit" /\ exitPath' = "exception" /\ route' = route
          ELSE IF landed = "direct"
          THEN scrPc' = "tab" /\ exitPath' = exitPath /\ route' = "direct"
          ELSE scrPc' = "click" /\ exitPath' = exitPath /\ route' = "list"
    /\ UNCHANGED <<cacheFiles, rawFile, analyzedFile, user_query, driver,
                   iterations, reviewsLen, fetched, rating_val, cacheAtCall, runs,
                   anVars, parseVars, appVars>>

\* 3. RESULT SELECTION: the click on the first result, or its failure
ScrClick ==
    /\ scrPc = "click"
    /\ \E ok \in BOOLEAN :
          IF ok THEN scrPc' = "tab" /\ exitPath' = exitPath
          ELSE scrPc' = "quit" /\ exitPath' = "click_failed"
    /\ UNCHANGED <<cacheFiles, rawFile, analyzedFile, user_query, driver, route,
                   iterations, reviewsLen, fetched, rating_val, cacheAtCall, runs,
                   anVars, parseVars, appVars>>

\* 1. AGGRESSIVE TAB HUNTING: every failure is swallowed
ScrTabHunt ==
    /\ scrPc = "tab"
    /\ scrPc' = "scroll"
    /\ UNCHANGED <<cacheFiles, rawFile, analyzedFile, user_query, driver, route,
                   iterations, reviewsLen, exitPath, fetched, rating_val, cacheAtCall, runs,
                   anVars, parseVars, appVars>>

\* iterations as the loop's tests see it: no test of the loop tells two
\* values above max_iterations_without_data + 5 apart, so they are kept as one
Saturated(n) == IF n > MaxIterations THEN MaxIterations ELSE n

\* 2. SCROLL LOOP: while len(reviews_data) < MAX_REVIEWS_TO_FETCH:
\* iterations += 1
ScrIterate ==
    /\ scrPc = "scroll"
    /\ IF reviewsLen < MAX_REVIEWS_TO_FETCH
       THEN scrPc' = "cards" /\ iterations' = Saturated(iterations + 1)
       ELSE scrPc' = "extract" /\ iterations' = iterations
    /\ UNCHANGED <<cacheFiles, rawFile, analyzedFile, user_query, driver, route,
                   reviewsLen, exitPath, fetched, rating_val, cacheAtCall, runs,
                   anVars, parseVars, appVars>>

\* the body of one iteration, which sees current_count cards: FAILURE CHECK,
\* then Normal Loop Logic
ScrScroll ==
    /\ scrPc = "cards"
    /\ \E current_count \in CardCounts :
          IF current_count = 0 /\ iterations >= max_iterations_without_data
          THEN /\ scrPc' = "fallback"
               /\ reviewsLen' = reviewsLen
               /\ iterations' = iterations
          ELSE IF current_count >= MAX_REVIEWS_TO_FETCH
          THEN /\ scrPc' = "extract"
               /\ reviewsLen' = reviewsLen
               /\ iterations' = iterations
          ELSE IF /\ current_count > 0
                  /\ current_count = reviewsLen
                  /\ iterations > max_iterations_without_data + 5
          THEN /\ scrPc' = "extract"
               /\ reviewsLen' = reviewsLen
               /\ iterations' = iterations
          ELSE IF current_count > reviewsLen
          THEN /\ scrPc' = "scroll"
               /\ reviewsLen' = current_count
               /\ iterations' = 0
          ELSE /\ scrPc' = "scroll"
               /\ reviewsLen' = reviewsLen
               /\ iterations' = iterations
    /\ UNCHANGED <<cacheFiles, rawFile, analyzedFile, user_query, driver, route,
                   exitPath, fetched, rating_val, cacheAtCall, runs, anVars, parseVars, appVars>>

\* a driver call of the scroll loop or of the extraction raises: caught by
\* run_scraper (inner handler on the list route, outer one otherwise); the
\* loop counter is not read again
ScrRaise ==
    /\ scrPc \in {"cards", "extract"}
    /\ scrPc' = "quit"
    /\ exitPath' = "exception"
    /\ iterations' = 0
    /\ UNCHANGED <<cacheFiles, rawFile, analyzedFile, user_query, driver, route,
                   reviewsLen, fetched, rating_val, cacheAtCall, runs,
                   anVars, parseVars, appVars>>

\* save_data(df, specific_filename)
save_data(records, filename) ==
    /\ cacheFiles' = [cacheFiles EXCEPT ![filename] = ToCsv(records)]
    /\ rawFile' = ToCsv(records)

\* FALLBACK: ROBUST RATING EXTRACTOR: the aria-label (try1), then, when that
\* left 0.0, the big number (try2)
ScrFallback ==
    /\ scrPc = "fallback"
    /\ \E try1 \in AggRatings :
       \E try2 \in (IF try1 = 0 THEN AggRatings ELSE {0}) :
          LET val == IF try1 = 0 THEN try2 ELSE try1
          IN  /\ rating_val' = val
              /\ IF val > 0
                 THEN /\ save_data(FallbackData(val),
                                   get_clean_filename(user_query))
                      /\ fetched' = FallbackData(val)
                      /\ exitPath' = "fallback_saved"
                 ELSE /\ exitPath' = "fallback_none"
                      /\ UNCHANGED <<cacheFiles, rawFile, fetched>>
    /\ scrPc' = "quit"
    /\ iterations' = 0
    /\ UNCHANGED <<analyzedFile, user_query, driver, route,
                   reviewsLen, cacheAtCall, runs, anVars, parseVars, appVars>>

\* 3. EXTRACTION: no card at all returns without saving; otherwise the rows
\* of the cards that could be read are saved, even when there are none
ScrExtract ==
    /\ scrPc = "extract"
    /\ \E n \in 0..MaxExtracted :
          IF n = 0
          THEN /\ exitPath' = "no_reviews"
               /\ UNCHANGED <<cacheFiles, rawFile, fetched>>
          ELSE \E kinds \in [1..n -> CardKinds] :
                  LET final_data ==
                          HeadRows(FinalData(user_query, kinds, 1),
                                   MAX_REVIEWS_TO_FETCH)
                  IN  /\ save_data(final_data, get_clean_filename(user_query))
                      /\ fetched' = final_data
                      /\ exitPath' = "scraped"
    /\ scrPc' = "quit"
    /\ iterations' = 0
    /\ UNCHANGED <<analyzedFile, user_query, driver, route,
                   reviewsLen, rating_val, cacheAtCall, runs, anVars, parseVars, appVars>>

\* a finally clause that skips driver.quit() after an exception
ScrQuitUnlessException ==
    /\ scrPc = "quit"
    /\ driver' = IF exitPath = "exception" THEN driver ELSE "closed"
    /\ scrPc' = "returned"
    /\ route' = ""
    /\ iterations' = 0
    /\ reviewsLen' = 0
    /\ rating_val' = 0
    /\ UNCHANGED <<cacheFiles, rawFile, analyzedFile, user_query, exitPath,
                   fetched, cacheAtCall, runs, anVars, parseVars, appVars>>

\* finally: driver.quit(); the locals of the call are gone
ScrQuit ==
    /\ scrPc = "quit"
    /\ driver' = "closed"
    /\ scrPc' = "returned"
    /\ route' = ""
    /\ iterations' = 0
    /\ reviewsLen' = 0
    /\ rating_val' = 0
    /\ UNCHANGED <<cacheFiles, rawFile, analyzedFile, user_query, exitPath,
                   fetched, cacheAtCall, runs, anVars, parseVars, appVars>>

ScraperNext ==
    \/ ScrCacheCheck
    \/ ScrGetDriver
    \/ ScrNavigate
    \/ ScrClick
    \/ ScrTabHunt
    \/ ScrIterate
    \/ ScrScroll
    \/ ScrRaise
    \/ ScrFallback
    \/ ScrExtract
    \/ ScrQuit

\* python data_fetcher.py, run again and again with a non-blank query
FetchStart ==
    /\ scrPc \in {"idle", "returned", "raised"}
    /\ \E q \in Queries : CallRunScraper(q)
    /\ UNCHANGED <<cacheFiles, rawFile, analyzedFile, anVars, parseVars, appVars>>

AppOff ==
    /\ appPc = "off"
    /\ last_query = <<>>
    /\ data_loaded = FALSE
    /\ status = "none"
    /\ view = "blank"

FetchInit ==
    /\ HF_API_TOKEN = ValidToken
    /\ cacheFiles = [f \in FileNames |-> NoFile]
    /\ rawFile = NoFile
    /\ analyzedFile = NoFile
    /\ anPc = "idle"
    /\ AnLocalsInit
    /\ content = <<>>
    /\ parsed = NoRow
    /\ scrPc = "idle"
    /\ ScrLocalsIdle
    /\ runs = 0
    /\ AppOff

FetchNext == FetchStart \/ ScraperNext

SpecFetch == FetchInit /\ [][FetchNext]_vars

\* the same runs, where a call of run_scraper that can take a step takes one:
\* the call is sequential code and nothing suspends it
SpecFetchFair == FetchInit /\ [][FetchNext]_vars /\ WF_vars(ScraperNext)

-----------------------------------------------------------------------------
(* app.py: one script run per user interaction.                            *)

\* the DASHBOARD DISPLAY section of a script run whose search did not start;
\* noQuery: the button was pressed with an empty query
Render(noQuery) ==
    IF data_loaded /\ analyzedFile.kind # "absent"
    THEN IF ReadRaises(analyzedFile)
         THEN view' = "error_read" /\ data_loaded' = data_loaded
         ELSE IF Len(analyzedFile.rows) = 0
         THEN view' = "error_empty" /\ data_loaded' = FALSE
         ELSE view' = "results" /\ data_loaded' = data_loaded
    ELSE /\ view' = IF noQuery THEN "warning_no_query" ELSE "blank"
         /\ data_loaded' = data_loaded

\* if search_btn and query: the state is reset and run_scraper(query) is called
AppSearch ==
    /\ appPc = "idle"
    /\ \E query \in Queries :
          /\ last_query' = query
          /\ CallRunScraper(query)
    /\ data_loaded' = FALSE
    /\ status' = "running"
    /\ view' = "running"
    /\ appPc' = "fetching"
    /\ anPc' = "idle"
    /\ UNCHANGED <<cacheFiles, rawFile, analyzedFile, HF_API_TOKEN, df, index,
                   analyzed_rows, invoked, errored, parseVars>>

\* run_scraper returned: analyzer.analyze_reviews() is called
AppCallAnalyzer ==
    /\ appPc = "fetching"
    /\ scrPc = "returned"
    /\ appPc' = "analyzing"
    /\ anPc' = "start"
    /\ df' = <<>>
    /\ index' = 0
    /\ analyzed_rows' = <<>>
    /\ invoked' = {}
    /\ errored' = {}
    /\ UNCHANGED <<cacheFiles, rawFile, analyzedFile, HF_API_TOKEN, parseVars,
                   scrVars, last_query, data_loaded, status, view>>

\* an exception left run_scraper or analyze_reviews: the script run ends
\* with the exception on the page
AppException ==
    /\ \/ appPc = "fetching" /\ scrPc = "raised"
       \/ appPc = "analyzing" /\ anPc = "raised"
    /\ view' = "exception"
    /\ appPc' = "idle"
    /\ UNCHANGED <<cacheFiles, rawFile, analyzedFile, anVars, parseVars,
                   scrVars, last_query, data_loaded, status>>

AnReturned == anPc \in {"abort_token", "abort_noinput", "abort_connect", "finished"}

\* Final check if the analyzer successfully created the file, then st.rerun()
AppCheck ==
    /\ appPc = "analyzing"
    /\ AnReturned
    /\ IF analyzedFile.kind # "absent" /\ ReadRaises(analyzedFile)
       THEN /\ view' = "exception"
            /\ appPc' = "idle"
            /\ UNCHANGED <<data_loaded, status>>
       ELSE IF analyzedFile.kind # "absent" /\ Len(analyzedFile.rows) > 0
       THEN /\ data_loaded' = TRUE
            /\ status' = "complete"
            /\ view' = view
            /\ appPc' = "rerun"
       ELSE /\ data_loaded' = data_loaded
            /\ status' = "error"
            /\ view' = view
            /\ appPc' = "rerun"
    /\ UNCHANGED <<cacheFiles, rawFile, analyzedFile, anVars, parseVars,
                   scrVars, last_query>>

\* the script run started by st.rerun(): search_btn is false
AppRerun ==
    /\ appPc = "rerun"
    /\ Render(FALSE)
    /\ appPc' = "idle"
    /\ UNCHANGED <<cacheFiles, rawFile, analyzedFile, anVars, parseVars,
                   scrVars, last_query, status>>

\* the button pressed with an empty query
AppEmptyClick ==
    /\ appPc = "idle"
    /\ view # "warning_no_query"
    /\ Render(TRUE)
    /\ appPc' = "idle"
    /\ UNCHANGED <<cacheFiles, rawFile, analyzedFile, anVars, parseVars,
                   scrVars, last_query, status>>

AppInit ==
    /\ HF_API_TOKEN \in TokenPool
    /\ cacheFiles = [f \in FileNames |-> NoFile]
    /\ rawFile = NoFile
    /\ analyzedFile = NoFile
    /\ anPc = "idle"
    /\ AnLocalsInit
    /\ content = <<>>
    /\ parsed = NoRow
    /\ scrPc = "idle"
    /\ ScrLocalsIdle
    /\ runs = 0
    /\ appPc = "idle"
    /\ last_query = <<>>
    /\ data_loaded = FALSE
    /\ status = "none"
    /\ view = "blank"

AppNext ==
    \/ AppSearch
    \/ AppCallAnalyzer
    \/ AppException
    \/ AppCheck
    \/ AppRerun
    \/ AppEmptyClick
    \/ ScraperNext
    \/ AnalyzerNext

SpecApp == AppInit /\ [][AppNext]_vars

\* python analyzer.py over any current file
Init ==
    /\ HF_API_TOKEN \in TokenPool
    /\ rawFile \in {NoFile, BlankFile} \cup {TableFile(t) : t \in Tables}
    /\ analyzedFile = NoFile
    /\ anPc = "start"
    /\ AnLocalsInit
    /\ content = <<>>
    /\ parsed = NoRow
    /\ cacheFiles = [f \in FileNames |-> NoFile]
    /\ scrPc = "idle"
    /\ ScrLocalsIdle
    /\ runs = 0
    /\ AppOff

Next == AnalyzerNext

Spec == Init /\ [][Next]_vars

-----------------------------------------------------------------------------
(* The reply parser on its own.                                            *)

ParseInit ==
    /\ HF_API_TOKEN = ValidToken
    /\ rawFile = NoFile
    /\ analyzedFile = NoFile
    /\ anPc = "parse"
    /\ AnLocalsInit
    /\ content \in Replies
    /\ parsed = NoRow
    /\ cacheFiles = [f \in FileNames |-> NoFile]
    /\ scrPc = "idle"
    /\ ScrLocalsIdle
    /\ runs = 0
    /\ AppOff

\* the try branch of the loop body on the row of the spec's scenario
ParseReply ==
    /\ anPc = "parse"
    /\ parsed' = ReplyRow("1", 50, TextGreatService, content)
    /\ anPc' = "parsed"
    /\ UNCHANGED <<HF_API_TOKEN, df, index, analyzed_rows, invoked, errored,
                   rawFile, analyzedFile, content,
                   cacheFiles, scrVars, appVars>>

ParseNext == ParseReply

SpecParse == ParseInit /\ [][ParseNext]_vars

-----------------------------------------------------------------------------
(* Properties of analyze_reviews.                                          *)

Sentiments == {Positive, Neutral, Negative}

\* C1: every row analyze_reviews builds, and every row of the output file,
\* has a sentiment that is exactly Positive, Neutral or Negative.
C1_SentimentInFixedSet ==
    /\ \A i \in 1..Len(analyzed_rows) : analyzed_rows[i].sentiment \in Sentiments
    /\ \A i \in 1..Len(analyzedFile.rows) :
          analyzedFile.rows[i].sentiment \in Sentiments

\* a finished run that skipped a row, got a reply and had an invocation error
C1_Witness ==
    /\ anPc = "finished"
    /\ errored # {}
    /\ invoked \ errored # {}
    /\ \E i \in 1..Len(df) : i \notin invoked
    /\ Len(analyzedFile.rows) = Len(df)

SameReview(out, in) ==
    /\ out.author = in.author
    /\ out.rating = in.rating
    /\ out.text = StrOf(in.text)

\* C2 as stated: a finished run has written exactly one analyzed row per row
\* of the input table, in the same order, whatever the table's length.
C2_OneRowPerInputRow ==
    anPc = "finished" =>
        /\ Len(analyzedFile.rows) = Len(rawFile.rows)
        /\ \A i \in 1..Len(rawFile.rows) :
              SameReview(analyzedFile.rows[i], ReadCsv(rawFile)[i])

\* C2 amended: a finished run has written exactly one analyzed row per row
\* among the first MAX_REVIEWS rows of the input table, in the same order,
\* and nothing for the rows after them.
C2_OneRowPerLoadedRow ==
    anPc = "finished" =>
        /\ Len(analyzedFile.rows) =
              (IF Len(rawFile.rows) > MAX_REVIEWS THEN MAX_REVIEWS
               ELSE Len(rawFile.rows))
        /\ \A i \in 1..Len(analyzedFile.rows) :
              SameReview(analyzedFile.rows[i], ReadCsv(rawFile)[i])

\* a finished run over more than MAX_REVIEWS rows with an error before a
\* later row
C2_Witness ==
    /\ anPc = "finished"
    /\ Len(rawFile.rows) > MAX_REVIEWS
    /\ Len(analyzedFile.rows) = MAX_REVIEWS
    /\ \E i \in errored : \E j \in invoked \ errored : i < j
    /\ \E i \in 1..Len(df) : i \notin invoked

\* C5: a row whose invocation raised is emitted with sentiment Positive for
\* a rating of 4.0 or more, Negative for 2.0 or less, Neutral in between,
\* and with the fixed recommendation.
C5_FallbackByRating ==
    \A i \in errored :
        LET r == df[i].rating
            row == analyzed_rows[i]
        IN  /\ i <= Len(analyzed_rows)
            /\ (r >= 40 => row.sentiment = Positive)
            /\ (r <= 20 => row.sentiment = Negative)
            /\ (r > 20 /\ r < 40 => row.sentiment = Neutral)
            /\ row.recommendation = FallbackRecommendation
            /\ row.author = df[i].author
            /\ row.rating = r

\* an invocation error on a row rated exactly 4.0 or exactly 2.0
C5_Witness ==
    \E i \in errored :
        /\ df[i].rating \in {20, 40}
        /\ analyzed_rows[i].sentiment \in {Positive, Negative}

\* the scraper's placeholder for a card without text
IsTrivialText(cell) ==
    cell = MissingText \/ Len(StrOf(cell)) < 5 \/ cell = NoTextPlaceholder

\* C9: a processed row whose text is absent, shorter than 5 characters or
\* the scraper's no-text placeholder was never sent to the model and is
\* emitted as Neutral / "No text provided" / "N/A" with its author and rating.
C9_BlankRowsSkipped ==
    \A i \in 1..index :
        IsTrivialText(df[i].text) =>
            /\ i \notin invoked
            /\ analyzed_rows[i].sentiment = Neutral
            /\ analyzed_rows[i].summary = NoTextProvided
            /\ analyzed_rows[i].recommendation = NotAvailable
            /\ analyzed_rows[i].author = df[i].author
            /\ analyzed_rows[i].rating = df[i].rating

\* a run that has processed a placeholder row, an absent text and a
\* four-character text
C9_Witness ==
    /\ \E i \in 1..index : df[i].text = NoTextPlaceholder
    /\ \E i \in 1..index : df[i].text = MissingText
    /\ \E i \in 1..index : df[i].text = TextGood
    /\ invoked # {}

-----------------------------------------------------------------------------
(* Properties of the reply parser.                                         *)

LowerCase(s) == [i \in 1..Len(s) |-> ToLower(s[i])]

\* the line carries the label in some letter case
CarriesLabel(line, key) == Contains(LowerCase(key), LowerCase(line))

\* what follows the label (in any letter case) and the colon after it
AfterLabel(line, key) ==
    LET p == CHOOSE i \in 1..Len(line) :
                /\ SubSeq(LowerCase(line), i, i + Len(key) - 1) = LowerCase(key)
                /\ \A j \in 1..(i - 1) :
                      SubSeq(LowerCase(line), j, j + Len(key) - 1) # LowerCase(key)
        rest == SubSeq(line, p + Len(key), Len(line))
    IN  Strip(SubSeq(rest, FirstIndex(":", rest) + 1, Len(rest)))

AsSentiment(value) ==
    IF Title(value) \in Sentiments THEN Title(value) ELSE Neutral

\* the field is the value of some line carrying the label in any letter
\* case, wherever the label stands; the sentinel when there is none
FromAnyLabelledLine(lines, key, field, conv(_)) ==
    LET carrying == {i \in 1..Len(lines) : CarriesLabel(lines[i], key)}
    IN  IF carrying = {} THEN field = conv(NotAvailable)
        ELSE \E i \in carrying : field = conv(AfterLabel(lines[i], key))

Same(value) == value

\* C8 as stated: each field comes from a line carrying its label, matched
\* without regard to letter case, position in the line or order of lines.
C8_LabelsMatchedAnyCase ==
    anPc = "parsed" =>
        /\ FromAnyLabelledLine(ReplyLines(content), KeySentiment,
                               parsed.sentiment, AsSentiment)
        /\ FromAnyLabelledLine(ReplyLines(content), KeySummary,
                               parsed.summary, Same)
        /\ FromAnyLabelledLine(ReplyLines(content), KeyRecommendation,
                               parsed.recommendation, Same)

\* the field is the stripped text after the first colon of the first line
\* that holds the label exactly as spelled and a colon; the sentinel when
\* no line does
FromFirstExactLine(lines, key, field, conv(_)) ==
    LET holding == {i \in 1..Len(lines) :
                       Contains(key, lines[i]) /\ FirstIndex(":", lines[i]) > 0}
    IN  IF holding = {} THEN field = conv(NotAvailable)
        ELSE LET i == CHOOSE k \in holding : \A j \in holding : k <= j
                 line == lines[i]
             IN  field = conv(Strip(SubSeq(line, FirstIndex(":", line) + 1,
                                           Len(line))))

ExampleOrders ==
    {JoinLines(<<LineSentimentPositive, LineSummary, LineRecommendation>>),
     JoinLines(<<LineSentimentPositive, LineRecommendation, LineSummary>>),
     JoinLines(<<LineSummary, LineSentimentPositive, LineRecommendation>>),
     JoinLines(<<LineSummary, LineRecommendation, LineSentimentPositive>>),
     JoinLines(<<LineRecommendation, LineSentimentPositive, LineSummary>>),
     JoinLines(<<LineRecommendation, LineSummary, LineSentimentPositive>>)}

\* C8 amended: each field is the stripped text after the first colon of the
\* first line that holds its label with the exact spelling Sentiment, Summary
\* or Recommendation and a colon, "N/A" when no line does; the sentiment is
\* then title-cased and replaced by Neutral outside the three values.  The
\* example reply gives Positive, "Customer loved it", "Keep it up" in every
\* order of its three lines.
C8_FirstExactLabelLine ==
    anPc = "parsed" =>
        /\ FromFirstExactLine(ReplyLines(content), KeySentiment,
                              parsed.sentiment, AsSentiment)
        /\ FromFirstExactLine(ReplyLines(content), KeySummary,
                              parsed.summary, Same)
        /\ FromFirstExactLine(ReplyLines(content), KeyRecommendation,
                              parsed.recommendation, Same)
        /\ (content \in ExampleOrders =>
               /\ parsed.sentiment = Positive
               /\ parsed.summary = CustomerLovedIt
               /\ parsed.recommendation = KeepItUp)

\* the example reply with its lines reordered, parsed
C8_Witness ==
    /\ anPc = "parsed"
    /\ content = JoinLines(<<LineRecommendation, LineSummary, LineSentimentPositive>>)
    /\ parsed.sentiment = Positive
    /\ parsed.recommendation = KeepItUp

-----------------------------------------------------------------------------
(* Properties of run_scraper.                                              *)

InCall == scrPc \notin {"idle", "returned", "raised"}

\* C3 as stated: when run_scraper has returned, data/reviews_raw.csv holds
\* the rows this fetch obtained, and no rows when it obtained none.
C3_CurrentFileIsLastFetch ==
    scrPc = "returned" => rawFile.rows = fetched

\* C4 as stated: a call that found the cache file of its query existing
\* opens no browser session.
C4_ExistingCacheNeverScrapes ==
    cacheAtCall # "absent" => driver = "none"

\* C4 amended: a call that found the cache file of its query existing and
\* readable (a table with its header) opens no browser session and returns
\* with the current file holding the rows of the cache file, which it leaves
\* as it was; a cache file that cannot be parsed is fetched afresh.
C4_ReadableCacheNeverScrapes ==
    cacheAtCall = "table" =>
        /\ driver = "none"
        /\ scrPc \in {"cache_check", "returned"}
        /\ cacheFiles[get_clean_filename(user_query)].kind = "table"
        /\ scrPc = "returned" =>
              /\ exitPath = "cache_hit"
              /\ rawFile = cacheFiles[get_clean_filename(user_query)]
              /\ fetched = rawFile.rows

\* the second call of run_scraper returned from the cache
C4_Witness ==
    /\ runs = 2
    /\ scrPc = "returned"
    /\ cacheAtCall = "table"
    /\ exitPath = "cache_hit"
    /\ driver = "none"

ExitPaths ==
    {"exception", "click_failed", "fallback_saved", "fallback_none",
     "no_reviews", "scraped"}

\* C6: when run_scraper has returned, no browser session is open; a call
\* that opened one (every exit path but the cache hit) has closed it.
C6_BrowserClosedOnReturn ==
    /\ driver = "open" => InCall
    /\ scrPc = "returned" =>
          /\ exitPath \in ExitPaths \cup {"cache_hit"}
          /\ exitPath \in ExitPaths => driver = "closed"
          /\ exitPath = "cache_hit" => driver = "none"
    /\ scrPc = "raised" => driver = "none"

\* run_scraper returned after an exception, its session closed
C6_Witness ==
    /\ scrPc = "returned"
    /\ exitPath = "exception"
    /\ driver = "closed"

VerdictWord(r) ==
    IF r >= 45 THEN WordExcellent
    ELSE IF r >= 40 THEN WordGood
    ELSE IF r >= 30 THEN WordAverage
    ELSE IF r >= 20 THEN WordPoor
    ELSE WordBad

\* C10: the step that ends a scroll loop which never saw a review entry
\* either read an aggregate rating r > 0 and saved exactly one synthesized
\* row, with rating r and the verdict for r in its text, to the cache file
\* and to the current file, or read none and saved nothing and fetched
\* nothing.
C10_FallbackRow ==
    [][(scrPc = "fallback" /\ reviewsLen = 0) =>
          LET f == get_clean_filename(user_query)
          IN  IF rating_val' > 0
              THEN /\ cacheFiles'[f].kind = "table"
                   /\ Len(cacheFiles'[f].rows) = 1
                   /\ cacheFiles'[f].rows[1].rating = rating_val'
                   /\ cacheFiles'[f].rows[1].author = GoogleSummary
                   /\ Contains(VerdictWord(rating_val'),
                               cacheFiles'[f].rows[1].text)
                   /\ \A g \in FileNames \ {f} : cacheFiles'[g] = cacheFiles[g]
                   /\ rawFile' = cacheFiles'[f]
                   /\ fetched' = rawFile'.rows
                   /\ exitPath' = "fallback_saved"
              ELSE /\ cacheFiles' = cacheFiles
                   /\ rawFile' = rawFile
                   /\ fetched' = <<>>
                   /\ exitPath' = "fallback_none"]_vars

\* the fallback has saved the row for an aggregate rating of 4.7
C10_Witness ==
    /\ scrPc = "quit"
    /\ exitPath = "fallback_saved"
    /\ reviewsLen = 0
    /\ rating_val = 47
    /\ Len(rawFile.rows) = 1
    /\ Contains(WordExcellent, rawFile.rows[1].text)
    /\ cacheFiles[get_clean_filename(user_query)] = rawFile

-----------------------------------------------------------------------------
(* Properties of the dashboard.                                            *)

\* the last triggered run fetched no rows, or its scoring wrote no output
EmptyResult ==
    \/ fetched = <<>>
    \/ ~(anPc = "finished" /\ analyzed_rows # <<>>)

\* the script run of a triggered search is over and its page is on display
RunOnDisplay ==
    appPc = "idle" /\ last_query # <<>> /\ view # "warning_no_query"

\* C7 as stated: after a triggered run that ended in an empty-result
\* condition the page shows a warning or error state (the error label of
\* the status box counts), data_loaded is false and no results dashboard is
\* shown.
C7_EmptyResultShowsWarning ==
    (RunOnDisplay /\ EmptyResult) =>
        /\ data_loaded = FALSE
        /\ view # "results"
        /\ \/ status = "error"
           \/ view \in {"exception", "error_read", "error_empty"}

-----------------------------------------------------------------------------
(* Properties of the token check.                                          *)

\* the steps a run with a rejected token may still take: none that reads the
\* input file, connects to the hosted model or writes the output file
NoAnalyzerIO ==
    /\ anPc' \in {"idle", "start", "abort_token"}
    /\ df' = <<>>
    /\ invoked' = {}
    /\ analyzedFile' = analyzedFile

\* none that opens a browser session or writes a fetched file
NoFetchIO ==
    /\ driver' = "none"
    /\ rawFile' = rawFile
    /\ cacheFiles' = cacheFiles

\* C11 as stated: with a token that is empty or does not start with "hf_",
\* no step of the run reads the input file, connects to the hosted model or
\* writes the output file, and in the dashboard flow no step of the fetch
\* opens a browser session or writes a file.
C11_InvalidTokenAbortsBeforeIO ==
    [][TokenInvalid(HF_API_TOKEN) => NoAnalyzerIO /\ NoFetchIO]_vars

\* C11, the part analyze_reviews keeps on its own: with a rejected token the
\* call returns at the token check, before the input file is looked at.
C11_AnalyzerAbortsBeforeIO ==
    [][TokenInvalid(HF_API_TOKEN) => NoAnalyzerIO]_vars

\* the dashboard run with a rejected token that fetched rows and saved them
\* before analyze_reviews returned at its token check
C11_FetchedBeforeAbort ==
    /\ TokenInvalid(HF_API_TOKEN)
    /\ appPc = "analyzing"
    /\ anPc = "abort_token"
    /\ exitPath = "scraped"
    /\ driver = "closed"
    /\ rawFile.kind = "table"

-----------------------------------------------------------------------------
(* Termination of the scroll loop.                                         *)

InScrollLoop == scrPc \in {"scroll", "cards"}

\* C12 as stated: whatever counts of visible entries the page returns on
\* successive iterations, a call that has entered the scroll loop leaves it
\* (to the extraction, to the aggregate-rating fallback, or by an exception).
C12_ScrollLoopTerminates ==
    [](InScrollLoop => <>(~InScrollLoop))

====
